---- MODULE Spec2Model ----
(***************************************************************************)
(* Model of the DataScrapper pipeline (src/main.py): main reads the        *)
(* (id, url) pairs, chunk_data splits them into batches, a                 *)
(* ThreadPoolExecutor of max_workers threads runs scrape_urls on each      *)
(* batch, and the workers share scraped_count and the two CSV sinks under  *)
(* the locks lock_count, lock and lock_error.                              *)
(***************************************************************************)
EXTENDS Integers, Sequences, FiniteSets, TLC

\* ---------------------------------------------------------------- bounds
\* Largest number of valid input rows.
MaxItems == 5
\* Largest pool size (main's max_workers argument).
MaxPool == 2
\* Most sink I/O failures (open/writerow raising) injected in one run.
MaxIOFaults == 1
\* chunk_data is also checked on its own over every list of at most MaxLen
\* elements and every batch count 1..MaxChunks.
MaxLen == 4
MaxChunks == 5
\* The progress counter is also checked on its own for every total up to
\* MaxTotal, which lies beyond two reporting intervals.
MaxTotal == 21
\* main.py:28 sets MAX_WORKERS = 128, which gives batches of two items only
\* from 513 input rows on.  The model scales the constant down so that
\* batches of two items occur within MaxItems rows.
MAX_WORKERS == 1

\* ------------------------------------------------------------- constants
\* main.py:85, the minimum length of a usable description.
MinLen == 10
\* main.py:99, the ETA reporting interval.
ReportEvery == 10

VARIABLES
    input,          \* id_url_pairs: the valid rows of the input file (ids)
    nchunks,        \* n of the chunk_data call
    batches,        \* what chunk_data returned
    max_workers,    \* main's argument
    total_urls,     \* global total_urls
    scraped_count,  \* global scraped_count
    lock,           \* holder of lock (result sink), Free or a thread
    lock_count,     \* holder of lock_count
    lock_error,     \* holder of lock_error
    result_sink,    \* rows of new_descriptions.csv
    error_sink,     \* rows of scraping_errors.csv
    prior,          \* rows of the result sink before this run
    mainpc,         \* position of the main thread
    bstatus,        \* per batch: "queued", "running", "done", "aborted"
    wpc,            \* per pool thread: its position in scrape_urls
    wbatch,         \* per pool thread: index of its batch (0: none)
    widx,           \* per pool thread: index of the current row in the batch
    results,        \* per pool thread: the local list results
    pending,        \* per pool thread: an exception is propagating
    wrote,          \* per pool thread: rows of results written by save_to_csv
    iofaults,       \* sink I/O failures so far
    fetches,        \* per item id: number of requests.get calls made for it
    failed,         \* ids whose fetch or extraction raised
    log             \* the log entries that matter, in order

gvars == <<input, nchunks, batches, max_workers, total_urls, prior>>
lvars == <<lock, lock_count, lock_error>>
svars == <<result_sink, error_sink>>
wvars == <<wpc, wbatch, widx, results, pending, wrote>>
hvars == <<iofaults, fetches, failed, log>>
vars == <<gvars, lvars, svars, wvars, hvars, scraped_count, mainpc, bstatus>>

\* ------------------------------------------------------------ data model
\* main.py:22-24: a new threading.Lock() is held by no one.
Free == 0
\* Mutant of CanAcquire: acquire does not wait for the holder.
CanAcquireMut(l) == TRUE

\* threading.Lock.acquire: blocks while the lock is held.
CanAcquire(l) == l = Free

\* Mutant of Release: the lock stays with its holder.
ReleaseMut(holder) == holder

\* Leaving a with block releases its lock, also when an exception leaves it.
Release(holder) == Free
\* The main thread's name as a lock holder; the pool threads are 1..MaxPool.
MainThread == MaxPool + 1
Threads == 1..MaxPool

\* Mutant of Pool: the pool ignores max_workers.
PoolMut == Threads

\* main.py:221: ThreadPoolExecutor(max_workers=max_workers) starts at most
\* max_workers threads.
Pool == 1..max_workers

NoDesc == [some |-> FALSE, len |-> 0]
Text(n) == [some |-> TRUE, len |-> n]
Row(id, d) == [kind |-> "row", id |-> id, description |-> d]
HeaderRow == [kind |-> "header", id |-> 0, description |-> NoDesc]
ErrRow(id) == [kind |-> "error", id |-> id, description |-> NoDesc]

\* The page behind each input URL is part of the input and is the same
\* whenever it is served: a page with a long enough description, a too short one, no
\* description div, and so on in turn.
Page(id) ==
    CASE id % 3 = 1 -> [div |-> TRUE, len |-> MinLen]
      [] id % 3 = 2 -> [div |-> TRUE, len |-> MinLen - 1]
      [] OTHER -> [div |-> FALSE, len |-> 0]

Min(a, b) == IF a < b THEN a ELSE b

RECURSIVE Concat(_)
Concat(ss) == IF ss = <<>> THEN <<>> ELSE Head(ss) \o Concat(Tail(ss))

RECURSIVE SeqsUpTo(_, _)
SeqsUpTo(S, n) ==
    IF n = 0 THEN {<<>>}
    ELSE LET shorter == SeqsUpTo(S, n - 1)
         IN shorter \cup {Append(s, x) : s \in {t \in shorter : Len(t) = n - 1}, x \in S}

\* ------------------------------------------------------------ chunk_data
\* Mutant of chunk_data: the remainder is not spread over the first batches.
chunk_dataMut(data, n) ==
    LET k == Len(data) \div n
    IN [j \in 1..n |-> SubSeq(data, (j - 1) * k + 1, j * k)]

\* main.py:164-165.  data[a:b] is SubSeq(data, a + 1, b).
chunk_data(data, n) ==
    LET k == Len(data) \div n
        m == Len(data) % n
    IN [j \in 1..n |->
          SubSeq(data, (j - 1) * k + Min(j - 1, m) + 1, j * k + Min(j, m))]

\* main.py:194: int(math.sqrt(len(id_url_pairs) * MAX_WORKERS) * 2)
ISqrt(x) == CHOOSE r \in 0..x : r * r <= x /\ (r + 1) * (r + 1) > x
NumChunks(t) == ISqrt(4 * t * MAX_WORKERS)

\* ------------------------------------------------------------------ Init
\* The result sink a second run finds: the header and one row of the first.
PriorRun == <<HeaderRow, Row(0, Text(MinLen))>>

EmptyLog == [eta |-> {}, alldone |-> 0, main_error |-> FALSE,
             save_error |-> {}, complete |-> FALSE]

InitWorkers ==
    /\ wpc = [w \in Threads |-> "idle"]
    /\ wbatch = [w \in Threads |-> 0]
    /\ widx = [w \in Threads |-> 0]
    /\ results = [w \in Threads |-> <<>>]
    /\ pending = [w \in Threads |-> FALSE]
    /\ wrote = [w \in Threads |-> 0]

InitShared ==
    /\ total_urls = 0
    /\ scraped_count = 0
    /\ lock = Free /\ lock_count = Free /\ lock_error = Free
    /\ error_sink = <<>>
    /\ batches = <<>>
    /\ bstatus = <<>>
    /\ iofaults = 0
    /\ fetches = [i \in 1..MaxItems |-> 0]
    /\ failed = {}
    /\ log = EmptyLog
    /\ InitWorkers

Init ==
    /\ input \in {[i \in 1..t |-> i] : t \in 0..MaxItems}
    /\ max_workers \in 1..MaxPool
    /\ prior \in {<<>>, PriorRun}
    /\ result_sink = prior
    /\ nchunks = 0
    /\ mainpc = "start"
    /\ InitShared

\* ------------------------------------------------------------------ main
\* main.py:178-194.  With no valid row the batch count is 0 and divmod in
\* chunk_data raises ZeroDivisionError, outside main's try: the process dies.
ReadInput ==
    /\ mainpc = "start"
    /\ total_urls' = Len(input)
    /\ nchunks' = NumChunks(Len(input))
    /\ IF nchunks' = 0
       THEN /\ mainpc' = "crashed"
            /\ UNCHANGED <<batches, bstatus>>
       ELSE /\ batches' = chunk_data(input, nchunks')
            /\ bstatus' = [b \in 1..nchunks' |-> "new"]
            /\ mainpc' = "header"
    /\ UNCHANGED <<input, max_workers, prior, lvars, svars, wvars, hvars, scraped_count>>

\* main.py:216-217: with lock: open(FILE_NAME, 'a')
HeaderAcquire ==
    /\ mainpc = "header"
    /\ CanAcquire(lock)
    /\ lock' = MainThread
    /\ mainpc' = "header_open"
    /\ UNCHANGED <<gvars, lock_count, lock_error, svars, wvars, hvars, scraped_count, bstatus>>

\* Mutant of WithHeader: the header is written without looking at tell().
WithHeaderMut(sink) == Append(sink, HeaderRow)

\* main.py:218-219: the header goes in only when tell() is 0.
WithHeader(sink) == IF Len(sink) = 0 THEN <<HeaderRow>> ELSE sink

HeaderWrite ==
    /\ mainpc = "header_open"
    /\ result_sink' = WithHeader(result_sink)
    /\ lock' = Release(lock)
    /\ mainpc' = "submit"
    /\ UNCHANGED <<gvars, lock_count, lock_error, error_sink, wvars, hvars, scraped_count, bstatus>>

\* main.py:224-225: open or writerow raised; the handler logs and main
\* returns without ever creating the pool.
HeaderFail ==
    /\ mainpc = "header_open"
    /\ iofaults < MaxIOFaults
    /\ iofaults' = iofaults + 1
    /\ lock' = Release(lock)
    /\ log' = [log EXCEPT !.main_error = TRUE]
    /\ mainpc' = "returned"
    /\ UNCHANGED <<gvars, lock_count, lock_error, svars, wvars, fetches, failed, scraped_count, bstatus>>

\* main.py:221-222: executor.map submits every batch to the pool's queue.
Submit ==
    /\ mainpc = "submit"
    /\ bstatus' = [b \in DOMAIN bstatus |-> "queued"]
    /\ mainpc' = "shutdown"
    /\ UNCHANGED <<gvars, lvars, svars, wvars, hvars, scraped_count>>

Finished(b) == bstatus[b] \in {"done", "aborted"}

\* main.py:221: leaving the with block is executor.shutdown(wait=True).
Join ==
    /\ mainpc = "shutdown"
    /\ \A b \in DOMAIN bstatus : Finished(b)
    /\ mainpc' = "returned"
    /\ UNCHANGED <<gvars, lvars, svars, wvars, hvars, scraped_count, bstatus>>

\* main.py:235-237
Complete ==
    /\ mainpc = "returned"
    /\ log' = [log EXCEPT !.complete = TRUE]
    /\ mainpc' = "complete"
    /\ UNCHANGED <<gvars, lvars, svars, wvars, iofaults, fetches, failed, scraped_count, bstatus>>

\* ------------------------------------------------- the pool (main.py:221)
\* Mutant of NextBatch: a batch that a thread is already running may be
\* handed out again.
NextBatchMut == CHOOSE b \in DOMAIN bstatus :
    /\ bstatus[b] \in {"queued", "running"}
    /\ \A c \in DOMAIN bstatus : bstatus[c] \in {"queued", "running"} => b <= c

\* ThreadPoolExecutor hands the queued batches out in submission order.
NextBatch == CHOOSE b \in DOMAIN bstatus :
    /\ bstatus[b] = "queued"
    /\ \A c \in DOMAIN bstatus : bstatus[c] = "queued" => b <= c

\* Mutant of Dispatch: the loop body is entered without looking at the
\* length of the batch.
DispatchMut(w) ==
    /\ mainpc = "shutdown"
    /\ w \in Pool
    /\ wpc[w] = "idle"
    /\ \E b \in DOMAIN bstatus : bstatus[b] = "queued"
    /\ LET b == NextBatch IN
         /\ bstatus' = [bstatus EXCEPT ![b] = "running"]
         /\ wbatch' = [wbatch EXCEPT ![w] = b]
         /\ results' = [results EXCEPT ![w] = <<>>]
         /\ wpc' = [wpc EXCEPT ![w] = "sleep"] /\ widx' = [widx EXCEPT ![w] = 1]
    /\ UNCHANGED <<gvars, lvars, svars, pending, wrote, hvars, scraped_count, mainpc>>

\* A pool thread that is between two work items takes the next batch and
\* enters scrape_urls (main.py:70-71).
Dispatch(w) ==
    /\ mainpc = "shutdown"
    /\ w \in Pool
    /\ wpc[w] = "idle"
    /\ \E b \in DOMAIN bstatus : bstatus[b] = "queued"
    /\ LET b == NextBatch IN
         /\ bstatus' = [bstatus EXCEPT ![b] = "running"]
         /\ wbatch' = [wbatch EXCEPT ![w] = b]
         /\ results' = [results EXCEPT ![w] = <<>>]
         /\ IF Len(batches[b]) = 0
            THEN wpc' = [wpc EXCEPT ![w] = "save"] /\ widx' = [widx EXCEPT ![w] = 0]
            ELSE wpc' = [wpc EXCEPT ![w] = "sleep"] /\ widx' = [widx EXCEPT ![w] = 1]
    /\ UNCHANGED <<gvars, lvars, svars, pending, wrote, hvars, scraped_count, mainpc>>

\* The row scrape_urls is working on.
Cur(w) == batches[wbatch[w]][widx[w]]

\* main.py:74-75: pick a header, sleep 1 to 4 seconds.
Throttle(w) ==
    /\ wpc[w] = "sleep"
    /\ wpc' = [wpc EXCEPT ![w] = "fetch"]
    /\ UNCHANGED <<gvars, lvars, svars, wbatch, widx, results, pending, wrote,
                   hvars, scraped_count, mainpc, bstatus>>

\* Mutant of Extracted: a description of exactly the minimum length is
\* dropped as well.
ExtractedMut(r) ==
    IF r.div
    THEN IF r.len <= MinLen THEN NoDesc ELSE Text(r.len)
    ELSE NoDesc

\* main.py:80-90: the description recorded for a page.
Extracted(r) ==
    IF r.div
    THEN IF r.len < MinLen THEN NoDesc ELSE Text(r.len)
    ELSE NoDesc

\* Mutant of OnError: the handler records nothing for the failed item.
OnErrorMut(res, id) == res

\* main.py:91-94: the handler logs, and appends (book_id, None) to results.
OnError(res, id) == Append(res, Row(id, NoDesc))

\* main.py:76-90: requests.get and raise_for_status return a page, which is
\* parsed and whose outcome is appended to results.
FetchOk(w) ==
    /\ wpc[w] = "fetch"
    /\ fetches' = [fetches EXCEPT ![Cur(w)] = @ + 1]
    /\ results' = [results EXCEPT ![w] = Append(@, Row(Cur(w), Extracted(Page(Cur(w)))))]
    /\ wpc' = [wpc EXCEPT ![w] = "count"]
    /\ UNCHANGED <<gvars, lvars, svars, wbatch, widx, pending, wrote,
                   iofaults, failed, log, scraped_count, mainpc, bstatus>>

\* main.py:76-79, 91-94: the request, raise_for_status or the parser raises;
\* the handler runs up to the call of log_error_to_csv.
FetchRaise(w) ==
    /\ wpc[w] = "fetch"
    /\ fetches' = [fetches EXCEPT ![Cur(w)] = @ + 1]
    /\ results' = [results EXCEPT ![w] = OnError(@, Cur(w))]
    /\ failed' = failed \cup {Cur(w)}
    /\ wpc' = [wpc EXCEPT ![w] = "err_lock"]
    /\ UNCHANGED <<gvars, lvars, svars, wbatch, widx, pending, wrote,
                   iofaults, log, scraped_count, mainpc, bstatus>>

\* main.py:95, 146: log_error_to_csv enters with lock_error.
LogErrorAcquire(w) ==
    /\ wpc[w] = "err_lock"
    /\ CanAcquire(lock_error)
    /\ lock_error' = w
    /\ wpc' = [wpc EXCEPT ![w] = "err_write"]
    /\ UNCHANGED <<gvars, lock, lock_count, svars, wbatch, widx, results, pending,
                   wrote, hvars, scraped_count, mainpc, bstatus>>

\* main.py:147-150: the row is appended and the lock released.
LogErrorWrite(w) ==
    /\ wpc[w] = "err_write"
    /\ error_sink' = Append(error_sink, ErrRow(Cur(w)))
    /\ lock_error' = Release(lock_error)
    /\ wpc' = [wpc EXCEPT ![w] = "count"]
    /\ UNCHANGED <<gvars, lock, lock_count, result_sink, wbatch, widx, results,
                   pending, wrote, hvars, scraped_count, mainpc, bstatus>>

\* main.py:147-149: open or writerow raises.  log_error_to_csv has no
\* handler and is called from the except block, so the exception leaves the
\* with (releasing lock_error), runs the finally block and then leaves
\* scrape_urls.
LogErrorFail(w) ==
    /\ wpc[w] = "err_write"
    /\ iofaults < MaxIOFaults
    /\ iofaults' = iofaults + 1
    /\ lock_error' = Release(lock_error)
    /\ pending' = [pending EXCEPT ![w] = TRUE]
    /\ wpc' = [wpc EXCEPT ![w] = "count"]
    /\ UNCHANGED <<gvars, lock, lock_count, svars, wbatch, widx, results,
                   wrote, fetches, failed, log, scraped_count, mainpc, bstatus>>

\* main.py:96-97: the finally block enters with lock_count.
CountAcquire(w) ==
    /\ wpc[w] = "count"
    /\ CanAcquire(lock_count)
    /\ lock_count' = w
    /\ wpc' = [wpc EXCEPT ![w] = "incr"]
    /\ UNCHANGED <<gvars, lock, lock_error, svars, wbatch, widx, results, pending,
                   wrote, hvars, scraped_count, mainpc, bstatus>>

\* main.py:98
Bump(c) == c + 1

\* Mutant of Logged: an ETA is logged for the last item as well.
LoggedMut(lg, c) ==
    [lg EXCEPT !.eta = IF c % ReportEvery = 0 \/ c = total_urls THEN @ \cup {c} ELSE @,
               !.alldone = IF c = total_urls THEN @ + 1 ELSE @]

\* main.py:99-111: the entries logged for the new value of the counter.
Logged(lg, c) ==
    [lg EXCEPT !.eta = IF c % ReportEvery = 0 THEN @ \cup {c} ELSE @,
               !.alldone = IF c = total_urls THEN @ + 1 ELSE @]

\* The locals of a pool thread that has left scrape_urls.
Leave(w) ==
    /\ wpc' = [wpc EXCEPT ![w] = "idle"]
    /\ wbatch' = [wbatch EXCEPT ![w] = 0]
    /\ widx' = [widx EXCEPT ![w] = 0]
    /\ results' = [results EXCEPT ![w] = <<>>]
    /\ pending' = [pending EXCEPT ![w] = FALSE]
    /\ wrote' = [wrote EXCEPT ![w] = 0]

\* main.py:98-111, then the loop goes on (71), ends (112), or the pending
\* exception leaves scrape_urls and is stored in the batch's future.
Increment(w) ==
    /\ wpc[w] = "incr"
    /\ scraped_count' = Bump(scraped_count)
    /\ log' = Logged(log, scraped_count')
    /\ lock_count' = Release(lock_count)
    /\ IF pending[w]
       THEN /\ bstatus' = [bstatus EXCEPT ![wbatch[w]] = "aborted"]
            /\ Leave(w)
       ELSE /\ IF widx[w] < Len(batches[wbatch[w]])
               THEN /\ widx' = [widx EXCEPT ![w] = @ + 1]
                    /\ wpc' = [wpc EXCEPT ![w] = "sleep"]
               ELSE /\ wpc' = [wpc EXCEPT ![w] = "save"]
                    /\ UNCHANGED widx
            /\ UNCHANGED <<bstatus, wbatch, results, pending, wrote>>
    /\ UNCHANGED <<gvars, lock, lock_error, svars, iofaults, fetches, failed, mainpc>>

\* main.py:112, 124-125: save_to_csv enters with lock.
SaveAcquire(w) ==
    /\ wpc[w] = "save"
    /\ CanAcquire(lock)
    /\ lock' = w
    /\ wpc' = [wpc EXCEPT ![w] = "write"]
    /\ wrote' = [wrote EXCEPT ![w] = 0]
    /\ UNCHANGED <<gvars, lock_count, lock_error, svars, wbatch, widx, results,
                   pending, hvars, scraped_count, mainpc, bstatus>>

\* main.py:128-130: one writerow.
SaveRow(w) ==
    /\ wpc[w] = "write"
    /\ wrote[w] < Len(results[w])
    /\ result_sink' = Append(result_sink, results[w][wrote[w] + 1])
    /\ wrote' = [wrote EXCEPT ![w] = @ + 1]
    /\ UNCHANGED <<gvars, lvars, error_sink, wpc, wbatch, widx, results, pending,
                   hvars, scraped_count, mainpc, bstatus>>

\* main.py:125-130, 113: every row is written; the file is closed, the lock
\* released and scrape_urls returns.
SaveClose(w) ==
    /\ wpc[w] = "write"
    /\ wrote[w] = Len(results[w])
    /\ lock' = Release(lock)
    /\ bstatus' = [bstatus EXCEPT ![wbatch[w]] = "done"]
    /\ Leave(w)
    /\ UNCHANGED <<gvars, lock_count, lock_error, svars, hvars, scraped_count, mainpc>>

\* main.py:131-133, 113: open or writerow raises; the handler logs the ids
\* and scrape_urls returns.
SaveFail(w) ==
    /\ wpc[w] = "write"
    /\ iofaults < MaxIOFaults
    /\ iofaults' = iofaults + 1
    /\ lock' = Release(lock)
    /\ log' = [log EXCEPT !.save_error = @ \cup {wbatch[w]}]
    /\ bstatus' = [bstatus EXCEPT ![wbatch[w]] = "done"]
    /\ Leave(w)
    /\ UNCHANGED <<gvars, lock_count, lock_error, svars, fetches, failed,
                   scraped_count, mainpc>>

\* ------------------------------------------------------- specifications
MainStep ==
    \/ ReadInput
    \/ HeaderAcquire
    \/ HeaderWrite
    \/ HeaderFail
    \/ Submit
    \/ Join
    \/ Complete

WorkerStep(w) ==
    \/ Dispatch(w)
    \/ Throttle(w)
    \/ FetchOk(w)
    \/ FetchRaise(w)
    \/ LogErrorAcquire(w)
    \/ LogErrorWrite(w)
    \/ LogErrorFail(w)
    \/ CountAcquire(w)
    \/ Increment(w)
    \/ SaveAcquire(w)
    \/ SaveRow(w)
    \/ SaveClose(w)
    \/ SaveFail(w)

Next == MainStep \/ \E w \in Threads : WorkerStep(w)

Spec == Init /\ [][Next]_vars

\* The threads are scheduled fairly and every sleep and every request
\* returns or raises: a step that stays possible is taken.
LiveSpec == Spec /\ WF_vars(Next)

\* chunk_data on its own: every list of at most MaxLen elements over two
\* values (so that a repeated element shows) and every batch count >= 1.
InitChunk ==
    /\ input \in SeqsUpTo({1, 2}, MaxLen)
    /\ nchunks \in 1..MaxChunks
    /\ max_workers = 1
    /\ prior = <<>>
    /\ result_sink = <<>>
    /\ mainpc = "call"
    /\ InitShared

ChunkCall ==
    /\ mainpc = "call"
    /\ batches' = chunk_data(input, nchunks)
    /\ mainpc' = "chunked"
    /\ UNCHANGED <<input, nchunks, max_workers, total_urls, prior, lvars, svars, wvars,
                   hvars, scraped_count, bstatus>>

SpecChunk == InitChunk /\ [][ChunkCall]_vars

\* --------------------------------------------------------------- claims
ItemsOf(b) == {batches[b][k] : k \in 1..Len(batches[b])}
Items == {input[k] : k \in 1..Len(input)}

\* Rows this run appended to the sinks for an item.
ResultRows(id) ==
    Cardinality({k \in (Len(prior) + 1)..Len(result_sink) :
                    result_sink[k].kind = "row" /\ result_sink[k].id = id})
ErrorRows(id) ==
    Cardinality({k \in 1..Len(error_sink) : error_sink[k].id = id})

AllFinished == bstatus # <<>> /\ \A b \in DOMAIN bstatus : Finished(b)

\* C1: every processed item gets exactly one of a Result Sink row and an
\* Error Sink row: never both, and never neither once its batch has
\* finished.  Stated for the runs in which no sink write fails.
C1_ExactlyOneOutcome ==
    iofaults = 0 =>
        /\ \A id \in Items : ~(ResultRows(id) >= 1 /\ ErrorRows(id) >= 1)
        /\ \A b \in DOMAIN bstatus :
             Finished(b) => \A id \in ItemsOf(b) : ResultRows(id) + ErrorRows(id) = 1

\* C2: chunk_data returns exactly n batches, of floor(T/n) or floor(T/n)+1
\* elements each, whose sizes sum to T and whose concatenation in order is
\* the input.
C2_Partition ==
    mainpc = "chunked" =>
        LET T == Len(input)
            k == T \div nchunks
        IN /\ Len(batches) = nchunks
           /\ \A j \in 1..Len(batches) : Len(batches[j]) \in {k, k + 1}
           /\ Len(Concat(batches)) = T
           /\ Concat(batches) = input

\* C2 witness: chunk_data has split a list whose length n does not divide
\* into batches of two different non-zero sizes.
C2_Witness ==
    /\ mainpc = "chunked"
    /\ Len(input) % nchunks # 0
    /\ Len(input) > nchunks
    /\ \E i, j \in 1..Len(batches) : Len(batches[i]) # Len(batches[j])

C4_FailureIsolated ==
    \A b \in DOMAIN bstatus :
        (Finished(b) /\ ItemsOf(b) \cap failed # {}) =>
            /\ bstatus[b] = "done"
            /\ \A id \in ItemsOf(b) : fetches[id] = 1

\* C5: a write failure on either sink is contained: no batch is cut short by
\* it, the worker goes on with the remaining items of its batch.
C5_SinkFailureContained ==
    \A b \in DOMAIN bstatus : bstatus[b] # "aborted"

Running == {b \in DOMAIN bstatus : bstatus[b] = "running"}

C6_Inv ==
    /\ Cardinality(Running) <= max_workers
    /\ \A b \in Running : Cardinality({w \in Threads : wbatch[w] = b}) = 1
    /\ \A w \in Threads : wbatch[w] # 0 => bstatus[wbatch[w]] = "running"

C6_Step ==
    /\ \A w \in Threads :
         (wbatch[w] # 0 /\ wbatch'[w] # wbatch[w]) =>
             /\ wbatch'[w] = 0
             /\ bstatus'[wbatch[w]] \in {"done", "aborted"}
    /\ \A b \in DOMAIN bstatus :
         (bstatus[b] = "queued" /\ bstatus'[b] # "queued") =>
             /\ bstatus'[b] = "running"
             /\ \E w \in Threads : wbatch[w] = 0 /\ wpc[w] = "idle" /\ wbatch'[w] = b
    /\ \A b \in DOMAIN bstatus :
         /\ (bstatus[b] = "running" /\ bstatus'[b] # "running") =>
                bstatus'[b] \in {"done", "aborted"}
         /\ Finished(b) => bstatus'[b] = bstatus[b]

\* C6: at most max_workers batches are being processed at any moment, each
\* running batch is run by exactly one thread, a queued batch starts only
\* on a thread that is free, a thread leaves its batch only when the batch
\* has finished, and a finished batch is never run again.
C6_BoundedPool == []C6_Inv /\ [][C6_Step]_vars

\* C6 witness: the pool is full, a batch has finished and another one still
\* waits in the queue.
C6_Witness ==
    /\ Cardinality(Running) = max_workers
    /\ \E b \in DOMAIN bstatus : bstatus[b] = "queued"
    /\ \E b \in DOMAIN bstatus : bstatus[b] = "done"

\* C7: main returns, and 'Scraping complete' is logged, only after every
\* batch has been attempted and has finished.
C7_CompletionAfterAllBatches ==
    mainpc \in {"returned", "complete"} => AllFinished

Held(t) ==
    (IF lock = t THEN 1 ELSE 0) + (IF lock_count = t THEN 1 ELSE 0)
        + (IF lock_error = t THEN 1 ELSE 0)

\* C8: a thread holds at most one of lock, lock_count and lock_error, and
\* none of them during the throttle delay and the fetch.
C8_OneLockNoNetwork ==
    /\ \A t \in Threads \cup {MainThread} : Held(t) <= 1
    /\ \A w \in Threads : wpc[w] \in {"sleep", "fetch"} => Held(w) = 0

\* C8 witness: a thread is in the fetch of the second item of its batch
\* (it has been through lock_count) while another thread holds lock.
C8_Witness ==
    \E w, v \in Threads :
        /\ wpc[w] = "fetch" /\ widx[w] = 2
        /\ v # w /\ lock = v

Writers == {w \in Threads : wpc[w] = "write"}
ErrWriters == {w \in Threads : wpc[w] = "err_write"}

\* C9: at most one thread at a time appends to the Result Sink (main's
\* header write included) and at most one to the Error Sink, each under the
\* sink's lock, and the rows of a flush in progress are the last rows of the
\* sink: no row of another thread gets in between.
C9_SinkWritersSerialized ==
    /\ Cardinality(Writers) + (IF mainpc = "header_open" THEN 1 ELSE 0) <= 1
    /\ Cardinality(ErrWriters) <= 1
    /\ \A w \in Writers :
         /\ lock = w
         /\ Len(result_sink) >= wrote[w]
         /\ SubSeq(result_sink, Len(result_sink) - wrote[w] + 1, Len(result_sink))
                = SubSeq(results[w], 1, wrote[w])
    /\ \A w \in ErrWriters : lock_error = w

\* C9 witness: a thread has written the first of the two rows of its flush
\* while another thread waits for lock to flush its own batch.
C9_Witness ==
    \E w, v \in Threads :
        /\ wpc[w] = "write" /\ wrote[w] = 1 /\ Len(results[w]) = 2
        /\ wpc[v] = "save"

HeaderCount(s) == Cardinality({k \in 1..Len(s) : s[k].kind = "header"})

\* C10: the header is written only when the Result Sink is empty when main
\* opens it, and then once, as the first row; a run against a non-empty
\* sink adds no header and keeps the prior content as it was.
C10_HeaderOnce ==
    /\ Len(result_sink) >= Len(prior)
    /\ SubSeq(result_sink, 1, Len(prior)) = prior
    /\ HeaderCount(result_sink) <= 1
    /\ prior # <<>> => HeaderCount(result_sink) = HeaderCount(prior)
    /\ (prior = <<>> /\ ~log.main_error
            /\ mainpc \in {"submit", "shutdown", "returned", "complete"}) =>
           (result_sink[1] = HeaderRow /\ HeaderCount(result_sink) = 1)

\* C10 witness: a run against the sink a first run left has finished and
\* has appended its rows.
C10_Witness ==
    /\ prior = PriorRun
    /\ mainpc = "complete"
    /\ Len(result_sink) > Len(prior)
    /\ HeaderCount(result_sink) = 1

NoWorkerBusy == \A w \in Threads : wpc[w] = "idle" /\ wbatch[w] = 0

\* C11: with no valid input row the total is 0, no worker is dispatched,
\* nothing is written to either sink and the process ends without an error.
C11_EmptyInputClean ==
    (Len(input) = 0 /\ mainpc # "start") =>
        /\ total_urls = 0
        /\ NoWorkerBusy
        /\ result_sink = prior /\ error_sink = <<>>
        /\ mainpc # "crashed"

BatchOf(id) == CHOOSE b \in DOMAIN batches : id \in ItemsOf(b)

\* The rows this run appended to the Result Sink, the header left out.
NewRows ==
    LET added == SubSeq(result_sink, Len(prior) + 1, Len(result_sink))
    IN SelectSeq(added, LAMBDA r : r.kind = "row")

\* A description was found for the item: its fetch did not fail and its page
\* has the description div.
Found(id) == id \notin failed /\ Page(id).div

\* C12: after a run in which every batch has finished and no sink write
\* failed, the Result Sink has gained exactly one row per input item and no
\* other row, with an empty description where none was found.
C12_OneRowPerItem ==
    (AllFinished /\ iofaults = 0) =>
        /\ Len(NewRows) = Len(input)
        /\ \A id \in Items : ResultRows(id) = 1
        /\ \A k \in 1..Len(NewRows) :
             ~Found(NewRows[k].id) => NewRows[k].description = NoDesc

\* C12 witness: such a run has ended, with a failed item, an item without
\* description and an item with one.
C12_Witness ==
    /\ AllFinished /\ iofaults = 0 /\ mainpc = "complete"
    /\ failed # {}
    /\ \E k \in 1..Len(NewRows) : NewRows[k].description # NoDesc
    /\ \E id \in Items \ failed : ~Page(id).div

\* What the claim expects for a fetched page: the text itself when it has
\* at least MinLen characters, no description otherwise.
Expected(id) ==
    IF Page(id).div /\ Page(id).len >= MinLen THEN Text(Page(id).len) ELSE NoDesc

\* C13: an item whose fetch succeeded never gets an Error Sink row, its
\* result (in the worker's list and in the sink) carries the text when that
\* has at least MinLen characters and None when the div is missing or the
\* text shorter, and it has its Result Sink row once its batch is flushed.
C13_ExtractionMissIsSuccess ==
    \A id \in Items \ failed :
        /\ ErrorRows(id) = 0
        /\ \A k \in 1..Len(NewRows) :
             NewRows[k].id = id => NewRows[k].description = Expected(id)
        /\ \A w \in Threads : \A k \in 1..Len(results[w]) :
             results[w][k].id = id => results[w][k].description = Expected(id)
        /\ (fetches[id] = 1 /\ bstatus[BatchOf(id)] = "done"
              /\ BatchOf(id) \notin log.save_error) => ResultRows(id) = 1

\* C13 witness: the sink holds the rows of three fetched items: one with a
\* text of MinLen characters, one with a shorter text and one without div.
C13_Witness ==
    \E a, b, c \in Items \ failed :
        /\ ResultRows(a) = 1 /\ ResultRows(b) = 1 /\ ResultRows(c) = 1
        /\ Page(a).div /\ Page(a).len = MinLen
        /\ Page(b).div /\ Page(b).len < MinLen
        /\ ~Page(c).div
        /\ \E k \in 1..Len(NewRows) :
             NewRows[k].id = a /\ NewRows[k].description = Text(MinLen)

\* The progress block on its own (main.py:97-111).  lock_count lets one
\* thread at a time through it, so the counter sees the increments one
\* after the other, whatever the batches are.
InitCount ==
    /\ total_urls \in 0..MaxTotal
    /\ scraped_count = 0
    /\ log = EmptyLog
    /\ mainpc = "counting"
    /\ input = <<>> /\ nchunks = 0 /\ batches = <<>> /\ bstatus = <<>>
    /\ max_workers = 1
    /\ prior = <<>> /\ result_sink = <<>> /\ error_sink = <<>>
    /\ lock = Free /\ lock_count = Free /\ lock_error = Free
    /\ iofaults = 0
    /\ fetches = [i \in 1..MaxItems |-> 0]
    /\ failed = {}
    /\ InitWorkers

CountStep ==
    /\ mainpc = "counting"
    /\ scraped_count < total_urls
    /\ scraped_count' = Bump(scraped_count)
    /\ log' = Logged(log, scraped_count')
    /\ UNCHANGED <<gvars, lvars, svars, wvars, iofaults, fetches, failed, mainpc, bstatus>>

SpecCount == InitCount /\ [][CountStep]_vars

\* C14 as stated: an ETA is logged after every increment that makes the
\* count a multiple of the reporting interval or equal to the total, and
\* none while the count is 0.
C14_EtaAtIntervalOrTotal ==
    /\ 0 \notin log.eta
    /\ \A c \in 1..scraped_count :
         (c % ReportEvery = 0 \/ c = total_urls) => c \in log.eta

\* C14 as amended: an ETA is logged exactly for the counts that are
\* multiples of the reporting interval (never for 0); the increment that
\* reaches the total logs 'All URLs scraped', and an ETA only when the total
\* is itself a multiple of the interval.
C14_EtaAtIntervalOnly ==
    /\ log.eta = {c \in 1..scraped_count : c % ReportEvery = 0}
    /\ (scraped_count = total_urls /\ total_urls >= 1) => log.alldone = 1
    /\ scraped_count < total_urls => log.alldone = 0

\* C14 witness: the count has passed a multiple of the interval, for which
\* the ETA was logged, and has reached a total that is not a multiple.
C14_Witness ==
    /\ scraped_count = total_urls
    /\ total_urls > ReportEvery /\ total_urls % ReportEvery # 0
    /\ ReportEvery \in log.eta
    /\ total_urls \notin log.eta

Outcome(id) == Row(id, IF id \in failed THEN NoDesc ELSE Expected(id))

\* C16: the final counter and the rows of both sinks are determined by the
\* input and the per-item fetch results alone, whatever max_workers is and
\* however the threads interleave: the counter is the number of items, the
\* Result Sink has gained exactly the outcome row of every item and the
\* Error Sink exactly one row per failed item.  Stated for the runs in
\* which no sink write fails.
C16_OutcomeIndependentOfPool ==
    (mainpc \in {"returned", "complete"} /\ iofaults = 0) =>
        /\ scraped_count = Len(input)
        /\ Len(NewRows) = Len(input)
        /\ \A id \in Items : \E k \in 1..Len(NewRows) : NewRows[k] = Outcome(id)
        /\ Len(error_sink) = Cardinality(failed)
        /\ \A id \in failed : \E k \in 1..Len(error_sink) : error_sink[k] = ErrRow(id)

\* C16 witness: a run with more than one pool thread has ended, with a
\* failed item and more batches than threads.
C16_Witness ==
    /\ mainpc = "complete" /\ iofaults = 0
    /\ max_workers > 1
    /\ Len(batches) > max_workers
    /\ failed # {} /\ failed # Items

C18_Inv ==
    \A w \in Threads :
        (wbatch[w] # 0 /\ Len(batches[wbatch[w]]) = 0) =>
            /\ wpc[w] \in {"save", "write"}
            /\ results[w] = <<>>
            /\ ~pending[w]

C18_Step ==
    \A w \in Threads :
        LET b == IF wbatch[w] # 0 THEN wbatch[w] ELSE wbatch'[w]
        IN (/\ b # 0
            /\ Len(batches[b]) = 0
            /\ (wpc'[w] # wpc[w] \/ wbatch'[w] # wbatch[w])) =>
               /\ UNCHANGED <<scraped_count, result_sink, error_sink, fetches, failed>>
               /\ bstatus'[b] \in {"running", "done"}

\* C18: a thread given an empty batch never enters the loop body: it goes
\* straight to save_to_csv with an empty list, and none of its steps
\* fetches, changes scraped_count or appends to a sink; the batch ends
\* normally, not with an exception.
C18_EmptyBatchNoOp == []C18_Inv /\ [][C18_Step]_vars

\* C18 witness: total is less than the number of batches and an empty batch
\* has been run to its end.
C18_Witness ==
    /\ total_urls < Len(batches)
    /\ \E b \in DOMAIN bstatus : Len(batches[b]) = 0 /\ bstatus[b] = "done"

\* C19: every batch that has been processed went through its one flush
\* (it ends in save_to_csv); a thread is in that flush only after the last
\* item of its batch has been counted, and no row of an item is in the
\* Result Sink before; the Error Sink row of a failed item is in the sink
\* before the item is counted, hence before the next item is started.
C19_FlushAfterLastItem ==
    /\ \A b \in DOMAIN bstatus : Finished(b) => bstatus[b] = "done"
    /\ \A w \in Threads :
         wpc[w] \in {"save", "write"} =>
             /\ widx[w] = Len(batches[wbatch[w]])
             /\ Len(results[w]) = Len(batches[wbatch[w]])
    /\ \A id \in Items :
         ResultRows(id) >= 1 =>
             /\ ResultRows(id) = 1
             /\ \/ bstatus[BatchOf(id)] = "done"
                \/ \E w \in Threads : wbatch[w] = BatchOf(id) /\ wpc[w] = "write"
    /\ \A w \in Threads :
         (wpc[w] \in {"count", "incr"} /\ Cur(w) \in failed /\ ~pending[w]) =>
             ErrorRows(Cur(w)) = 1

\* The process has reached its end (the last log entry, or the traceback of
\* an uncaught exception), every pool thread is idle and every lock free;
\* the batches that were submitted to the pool have all finished.
Quiet ==
    /\ mainpc \in {"complete", "crashed"}
    /\ NoWorkerBusy
    /\ lock = Free /\ lock_count = Free /\ lock_error = Free
    /\ \A b \in DOMAIN bstatus : bstatus[b] = "new" \/ Finished(b)

====
